---- MODULE Spec2Model ----
(***************************************************************************)
(* A model of refcell-lock-api: the signed borrow counter of CellRwLock    *)
(* (src/src/raw.rs), the CellMutex wrapper around it and the build-time    *)
(* switch of build.rs that compiles the diagnostic location in or out.     *)
(*                                                                         *)
(* One program (one sequence of calls) is run under every build            *)
(* configuration at once: rw[b] and mutex[b] are the lock objects of the   *)
(* program as built with configuration b.                                  *)
(***************************************************************************)
EXTENDS Integers, Sequences, FiniteSets, TLC

\* ------------------------------------------------------------------ bounds
\* modelled width, in bits, of the isize counter
Width == 4
\* number of distinct call sites (core::panic::Location values)
NumSites == 2

IsizeMax == 2^(Width - 1) - 1
IsizeMin == -(2^(Width - 1))
Sites == 1..NumSites

\* ------------------------------------------------------------------ Option
None == {}
Some(x) == {x}

\* ------------------------------------------------------------ build.rs
\* a build: the two cargo features and the profile's debug_assertions
Builds ==
    [feature_debug_location : BOOLEAN,
     feature_debug_location_releases : BOOLEAN,
     debug_assertions : BOOLEAN]

\* build b together with its profile's overflow-checks setting oc: what an
\* out-of-range `+` or `-` on isize does (panic or wrap). Nothing but an
\* out-of-range result reveals the setting.
Profile(b, oc) ==
    [feature_debug_location |-> b.feature_debug_location,
     feature_debug_location_releases |-> b.feature_debug_location_releases,
     debug_assertions |-> b.debug_assertions,
     overflow_checks |-> oc]

\* cfg alias debug_location
debug_location(b) ==
    \/ (b.feature_debug_location /\ b.debug_assertions)
    \/ b.feature_debug_location_releases

\* ------------------------------------------------------------ BorrowFlag
UNUSED == [count |-> 0]

\* mutant: the sign test off by one
state_off_by_one(flag) ==
    IF flag.count < 0 THEN "MutableBorrow"
    ELSE IF flag.count > 1 THEN "SharedBorrow"
    ELSE "Unused"

\* BorrowFlag::state
state(flag) ==
    IF flag.count < 0 THEN "MutableBorrow"
    ELSE IF flag.count > 0 THEN "SharedBorrow"
    ELSE "Unused"

\* isize::checked_add: None on overflow of the representable range.
\* The mutant wraps instead (two's complement).
wrapping_add(a, b) ==
    Some(((a + b - IsizeMin) % (2^Width)) + IsizeMin)

checked_add(a, b) ==
    IF a + b > IsizeMax \/ a + b < IsizeMin THEN None ELSE Some(a + b)

\* the value inside a Some
unwrap(opt) == CHOOSE x \in opt : TRUE

\* two's complement wrapping of a result into the isize range
wrap(n) == ((n - IsizeMin) % (2^Width)) + IsizeMin

\* plain `+` / `-` on isize with the mathematical result n: out of range it
\* panics (None) in a build with overflow checks and wraps in one without
arith(n, b) ==
    IF b.overflow_checks /\ (n > IsizeMax \/ n < IsizeMin)
    THEN None
    ELSE Some(wrap(n))

\* ------------------------------------------------------------ CellRwLock
\* results of the inner try_borrow_* functions
Ok(s) == [tag |-> "Ok", self |-> s]
Err(s, e) == [tag |-> "Err", self |-> s, err |-> e]
Panic(s, m) == [tag |-> "Panic", self |-> s, msg |-> m]

\* what an entry point leaves behind: the lock, and how the call ended
\* ("unit", "true", "false" or "panic" with its message)
Return(s, o) == [self |-> s, outcome |-> o, msg |-> <<>>]
Unwind(s, m) == [self |-> s, outcome |-> "panic", msg |-> m]

\* CellRwLock::earliest_borrow_location
earliest_borrow_location(self, b) ==
    IF debug_location(b) THEN self.earliest_borrow_location ELSE None

\* mutant: the exclusive acquire admitted over shared borrows as well
try_borrow_exclusively_over_shared(self, b, caller) ==
    IF state(self.borrow_count) \in {"Unused", "SharedBorrow"}
    THEN Ok([borrow_count |-> [count |-> -1],
             earliest_borrow_location |->
                 IF debug_location(b) THEN Some(caller)
                 ELSE self.earliest_borrow_location])
    ELSE Err(self, [is_exclusive |-> TRUE,
                    existing_location |-> earliest_borrow_location(self, b)])

\* mutant: the call site recorded before the admission check is made
try_borrow_exclusively_record_first(self, b, caller) ==
    LET seen == IF debug_location(b)
                THEN [self EXCEPT !.earliest_borrow_location = Some(caller)]
                ELSE self
    IN  IF state(self.borrow_count) = "Unused"
        THEN Ok([seen EXCEPT !.borrow_count = [count |-> -1]])
        ELSE Err(seen, [is_exclusive |-> TRUE,
                        existing_location |-> earliest_borrow_location(self, b)])

\* mutant: admission decided by the recorded location instead of the count
try_borrow_exclusively_by_location(self, b, caller) ==
    IF earliest_borrow_location(self, b) = None
    THEN Ok([borrow_count |-> [count |-> -1],
             earliest_borrow_location |->
                 IF debug_location(b) THEN Some(caller)
                 ELSE self.earliest_borrow_location])
    ELSE Err(self, [is_exclusive |-> TRUE,
                    existing_location |-> earliest_borrow_location(self, b)])

\* CellRwLock::try_borrow_exclusively. Line 136 hands Location::caller() to a
\* Cell<Option<..>>; the value stored is modelled as Some(caller), the only
\* value of the field's type that carries it.
try_borrow_exclusively(self, b, caller) ==
    IF state(self.borrow_count) = "Unused"
    THEN IF self.borrow_count.count # 0
         THEN Panic(self, <<"assertion left == right failed">>)
         ELSE Ok([borrow_count |-> [count |-> -1],
                  earliest_borrow_location |->
                      IF debug_location(b) THEN Some(caller)
                      ELSE self.earliest_borrow_location])
    ELSE Err(self, [is_exclusive |-> TRUE,
                    existing_location |-> earliest_borrow_location(self, b)])

\* mutant: the shared acquire admitted from Unused only (not reentrant)
try_borrow_shared_from_unused(self, b, caller) ==
    IF state(self.borrow_count) = "Unused"
    THEN Ok([self EXCEPT !.borrow_count = [count |-> 1]])
    ELSE Err(self, [is_exclusive |-> FALSE,
                    existing_location |-> earliest_borrow_location(self, b)])

\* CellRwLock::try_borrow_shared. The success branch (lines 153-167) sets
\* the count only: it never writes earliest_borrow_location.
try_borrow_shared(self, b, caller) ==
    IF state(self.borrow_count) \in {"Unused", "SharedBorrow"}
    THEN LET sum == checked_add(self.borrow_count.count, 1)
         IN  IF sum = None
             THEN Panic(self, <<"Overflow shared borrows">>)
             ELSE Ok([self EXCEPT !.borrow_count = [count |-> unwrap(sum)]])
    ELSE IF b.debug_assertions /\ state(self.borrow_count) # "MutableBorrow"
         THEN Panic(self, <<"assertion left == right failed">>)
         ELSE Err(self, [is_exclusive |-> FALSE,
                         existing_location |-> earliest_borrow_location(self, b)])

\* impl Display for BorrowFailError: the message as its written fragments
fmt(fail) ==
    <<"Unable to ">>
    \o (IF fail.is_exclusive THEN <<"exclusively ">> ELSE <<>>)
    \o <<"borrow">>
    \o (IF fail.existing_location # None
        THEN <<": ",
               IF fail.is_exclusive THEN "Already" ELSE "Exclusively",
               " borrowed at ",
               ToString(unwrap(fail.existing_location))>>
        ELSE <<>>)

\* BorrowFailError::panic
panic(fail) == fmt(fail)

\* CellRwLock::INIT
INIT ==
    [borrow_count |-> UNUSED, earliest_borrow_location |-> None]

\* mutant: only an exclusive borrow counts as locked
is_locked_when_exclusive(self) ==
    state(self.borrow_count) = "MutableBorrow"

\* CellRwLock::is_locked
is_locked(self) ==
    CASE state(self.borrow_count) = "Unused" -> FALSE
      [] state(self.borrow_count) \in {"MutableBorrow", "SharedBorrow"} -> TRUE

\* mutant: any borrow counts as an exclusive one
is_locked_exclusive_any(self) ==
    state(self.borrow_count) # "Unused"

\* CellRwLock::is_locked_exclusive
is_locked_exclusive(self) ==
    state(self.borrow_count) = "MutableBorrow"

\* mutant: a refused shared borrow swallowed instead of raised
lock_shared_silent(self, b, caller) ==
    LET r == try_borrow_shared(self, b, caller)
    IN  CASE r.tag = "Ok" -> Return(r.self, "unit")
          [] r.tag = "Err" -> Return(r.self, "unit")
          [] r.tag = "Panic" -> Unwind(r.self, r.msg)

\* CellRwLock::lock_shared
lock_shared(self, b, caller) ==
    LET r == try_borrow_shared(self, b, caller)
    IN  CASE r.tag = "Ok" -> Return(r.self, "unit")
          [] r.tag = "Err" -> Unwind(r.self, panic(r.err))
          [] r.tag = "Panic" -> Unwind(r.self, r.msg)

\* CellRwLock::try_lock_shared
try_lock_shared(self, b, caller) ==
    LET r == try_borrow_shared(self, b, caller)
    IN  CASE r.tag = "Ok" -> Return(r.self, "true")
          [] r.tag = "Err" -> Return(r.self, "false")
          [] r.tag = "Panic" -> Unwind(r.self, r.msg)

\* mutant: the location never cleared
clear_if_unlocked_never(self, b) == self

\* the tail shared by both unlock functions: clear the location once unused
clear_if_unlocked(self, b) ==
    IF ~is_locked(self) /\ debug_location(b)
    THEN [self EXCEPT !.earliest_borrow_location = None]
    ELSE self

\* mutant: the release that forgets to decrement
unlock_shared_keep(self, b) ==
    Return(clear_if_unlocked(self, b), "unit")

\* mutant: the release without its debug assertions
unlock_shared_unchecked(self, b) ==
    LET n == arith(self.borrow_count.count - 1, b)
    IN  IF n = None
        THEN Unwind(self, <<"attempt to subtract with overflow">>)
        ELSE Return(clear_if_unlocked(
                        [self EXCEPT !.borrow_count = [count |-> unwrap(n)]],
                        b),
                    "unit")

\* CellRwLock::unlock_shared
unlock_shared(self, b) ==
    IF b.debug_assertions /\ state(self.borrow_count) # "SharedBorrow"
    THEN Unwind(self, <<"assertion left == right failed">>)
    ELSE IF b.debug_assertions /\ ~(self.borrow_count.count > 0)
    THEN Unwind(self, <<"assertion failed: self.borrow_count.get().count > 0">>)
    ELSE LET n == arith(self.borrow_count.count - 1, b)
         IN  IF n = None
             THEN Unwind(self, <<"attempt to subtract with overflow">>)
             ELSE Return(clear_if_unlocked(
                             [self EXCEPT !.borrow_count =
                                 [count |-> unwrap(n)]], b),
                         "unit")

\* CellRwLock::lock_exclusive
lock_exclusive(self, b, caller) ==
    LET r == try_borrow_exclusively(self, b, caller)
    IN  CASE r.tag = "Ok" -> Return(r.self, "unit")
          [] r.tag = "Err" -> Unwind(r.self, panic(r.err))
          [] r.tag = "Panic" -> Unwind(r.self, r.msg)

\* mutant: the try entry point built on the panicking one
try_lock_exclusive_raising(self, b, caller) ==
    LET r == try_borrow_exclusively(self, b, caller)
    IN  CASE r.tag = "Ok" -> Return(r.self, "true")
          [] r.tag = "Err" -> Unwind(r.self, panic(r.err))
          [] r.tag = "Panic" -> Unwind(r.self, r.msg)

\* CellRwLock::try_lock_exclusive
try_lock_exclusive(self, b, caller) ==
    LET r == try_borrow_exclusively(self, b, caller)
    IN  CASE r.tag = "Ok" -> Return(r.self, "true")
          [] r.tag = "Err" -> Return(r.self, "false")
          [] r.tag = "Panic" -> Unwind(r.self, r.msg)

\* mutant: the exclusive release stepping the count the wrong way
unlock_exclusive_down(self, b) ==
    Return(clear_if_unlocked(
               [self EXCEPT !.borrow_count =
                   [count |-> wrap(self.borrow_count.count - 1)]], b),
           "unit")

\* mutant: the release that leaves the recorded location behind
unlock_exclusive_stale(self, b) ==
    Return([self EXCEPT !.borrow_count =
                [count |-> wrap(self.borrow_count.count + 1)]], "unit")

\* CellRwLock::unlock_exclusive
unlock_exclusive(self, b) ==
    IF b.debug_assertions /\ state(self.borrow_count) # "MutableBorrow"
    THEN Unwind(self, <<"assertion left == right failed">>)
    ELSE IF b.debug_assertions /\ ~(self.borrow_count.count < 0)
    THEN Unwind(self, <<"assertion failed: self.borrow_count.get().count < 0">>)
    ELSE LET n == arith(self.borrow_count.count + 1, b)
         IN  IF n = None
             THEN Unwind(self, <<"attempt to add with overflow">>)
             ELSE Return(clear_if_unlocked(
                             [self EXCEPT !.borrow_count =
                                 [count |-> unwrap(n)]], b),
                         "unit")

\* mutant: the recursive acquire granted to the first shared holder only
lock_shared_recursive_once(self, b, caller) ==
    LET r == try_borrow_shared_from_unused(self, b, caller)
    IN  CASE r.tag = "Ok" -> Return(r.self, "unit")
          [] r.tag = "Err" -> Unwind(r.self, panic(r.err))

\* RawRwLockRecursive::lock_shared_recursive
lock_shared_recursive(self, b, caller) == lock_shared(self, b, caller)

\* RawRwLockRecursive::try_lock_shared_recursive
try_lock_shared_recursive(self, b, caller) == try_lock_shared(self, b, caller)

\* ------------------------------------------------------------ CellMutex
\* the tuple struct CellMutex(CellRwLock): self[1] is self.0
CellMutex_INIT == <<INIT>>

\* put the inner lock an entry point left behind back into the wrapper
rewrap(r) == [r EXCEPT !.self = <<r.self>>]

\* CellMutex::lock
CellMutex_lock(self, b, caller) == rewrap(lock_exclusive(self[1], b, caller))

\* mutant: the mutex taken through the shared half of the lock
CellMutex_try_lock_shared(self, b, caller) ==
    rewrap(try_lock_shared(self[1], b, caller))

\* CellMutex::try_lock
CellMutex_try_lock(self, b, caller) ==
    rewrap(try_lock_exclusive(self[1], b, caller))

\* CellMutex::unlock
CellMutex_unlock(self, b) == rewrap(unlock_exclusive(self[1], b))

\* CellMutex::is_locked
CellMutex_is_locked(self) == is_locked(self[1])

Bool(v) == IF v THEN "true" ELSE "false"

\* ------------------------------------------------------------------ state
VARIABLES
    rw,      \* rw[b]: the CellRwLock of the program built as b
    mutex,   \* mutex[b]: the CellMutex of the program built as b
    ret,     \* ret[b]: the last call: entry point, call site, how it ended
    pre,     \* pre[b]: history: the lock, the borrows held and the record
             \* of the call before, as they were when the last call began
    held,    \* held[b]: the borrows the callers hold (acquired, not released)
    misused  \* whether an unlock_* call was made without holding the borrow

vars == <<rw, mutex, ret, pre, held, misused>>

Init ==
    /\ rw = [b \in Builds |-> INIT]
    /\ mutex = [b \in Builds |-> CellMutex_INIT]
    /\ ret = [b \in Builds |->
                [op |-> "INIT", site |-> None, outcome |-> "unit", msg |-> <<>>]]
    /\ held = [b \in Builds |-> [shared |-> 0, exclusive |-> 0, mutex |-> 0]]
    /\ misused = FALSE
    /\ pre = [b \in Builds |->
                [self |-> INIT,
                 held |-> [shared |-> 0, exclusive |-> 0, mutex |-> 0],
                 ret |-> [op |-> "INIT", outcome |-> "unit"],
                 earlier |-> INIT]]

\* the inner CellRwLock of each build's CellMutex
Inner(m) == [b \in Builds |-> m[b][1]]

\* the history kept when a call begins on the locks `locks`: the lock, the
\* borrows held, the call before (entry point and how it ended) and the lock
\* that one began on
Before(locks) ==
    [b \in Builds |->
        [self |-> locks[b], held |-> held[b],
         ret |-> [op |-> ret[b].op, outcome |-> ret[b].outcome],
         earlier |-> pre[b].self]]

\* the record of a finished call
Called(name, site, r) ==
    [op |-> name, site |-> site, outcome |-> r.outcome, msg |-> r.msg]

\* a caller gains a borrow when the acquire returned (unit or true)
Gain(h, kind, r) ==
    IF r.outcome \in {"unit", "true"} THEN [h EXCEPT ![kind] = @ + 1] ELSE h

\* a caller gives its borrow up when the release returned
Drop(h, kind, r) ==
    IF r.outcome = "unit" THEN [h EXCEPT ![kind] = @ - 1] ELSE h

\* ---------------------------------------------------------------- actions
CallLockShared ==
    \E caller \in Sites :
        LET r == [b \in Builds |-> lock_shared(rw[b], b, caller)]
        IN  /\ ~misused
            /\ pre' = Before(rw)
            /\ rw' = [b \in Builds |-> r[b].self]
            /\ ret' = [b \in Builds |-> Called("lock_shared", Some(caller), r[b])]
            /\ held' = [b \in Builds |-> Gain(held[b], "shared", r[b])]
            /\ UNCHANGED <<mutex, misused>>

CallTryLockShared ==
    \E caller \in Sites :
        LET r == [b \in Builds |-> try_lock_shared(rw[b], b, caller)]
        IN  /\ ~misused
            /\ pre' = Before(rw)
            /\ rw' = [b \in Builds |-> r[b].self]
            /\ ret' = [b \in Builds |-> Called("try_lock_shared", Some(caller), r[b])]
            /\ held' = [b \in Builds |-> Gain(held[b], "shared", r[b])]
            /\ UNCHANGED <<mutex, misused>>

\* unsafe fn: called only by a caller that holds a shared borrow
CallUnlockShared ==
    \E oc \in BOOLEAN :
        LET r == [b \in Builds |-> unlock_shared(rw[b], Profile(b, oc))]
        IN  /\ ~misused
            /\ \A b \in Builds : held[b].shared > 0
            /\ pre' = Before(rw)
            /\ rw' = [b \in Builds |-> r[b].self]
            /\ ret' = [b \in Builds |-> Called("unlock_shared", None, r[b])]
            /\ held' = [b \in Builds |-> Drop(held[b], "shared", r[b])]
            /\ UNCHANGED <<mutex, misused>>

CallLockExclusive ==
    \E caller \in Sites :
        LET r == [b \in Builds |-> lock_exclusive(rw[b], b, caller)]
        IN  /\ ~misused
            /\ pre' = Before(rw)
            /\ rw' = [b \in Builds |-> r[b].self]
            /\ ret' = [b \in Builds |-> Called("lock_exclusive", Some(caller), r[b])]
            /\ held' = [b \in Builds |-> Gain(held[b], "exclusive", r[b])]
            /\ UNCHANGED <<mutex, misused>>

CallTryLockExclusive ==
    \E caller \in Sites :
        LET r == [b \in Builds |-> try_lock_exclusive(rw[b], b, caller)]
        IN  /\ ~misused
            /\ pre' = Before(rw)
            /\ rw' = [b \in Builds |-> r[b].self]
            /\ ret' = [b \in Builds |-> Called("try_lock_exclusive", Some(caller), r[b])]
            /\ held' = [b \in Builds |-> Gain(held[b], "exclusive", r[b])]
            /\ UNCHANGED <<mutex, misused>>

\* unsafe fn: called only by the caller that holds the exclusive borrow
CallUnlockExclusive ==
    \E oc \in BOOLEAN :
        LET r == [b \in Builds |-> unlock_exclusive(rw[b], Profile(b, oc))]
        IN  /\ ~misused
            /\ \A b \in Builds : held[b].exclusive > 0
            /\ pre' = Before(rw)
            /\ rw' = [b \in Builds |-> r[b].self]
            /\ ret' = [b \in Builds |-> Called("unlock_exclusive", None, r[b])]
            /\ held' = [b \in Builds |-> Drop(held[b], "exclusive", r[b])]
            /\ UNCHANGED <<mutex, misused>>

CallIsLocked ==
    /\ ~misused
    /\ pre' = Before(rw)
    /\ ret' = [b \in Builds |->
           Called("is_locked", None, Return(rw[b], Bool(is_locked(rw[b]))))]
    /\ UNCHANGED <<rw, mutex, held, misused>>

CallIsLockedExclusive ==
    /\ ~misused
    /\ pre' = Before(rw)
    /\ ret' = [b \in Builds |->
           Called("is_locked_exclusive", None, Return(rw[b], Bool(is_locked_exclusive(rw[b]))))]
    /\ UNCHANGED <<rw, mutex, held, misused>>

CallLockSharedRecursive ==
    \E caller \in Sites :
        LET r == [b \in Builds |-> lock_shared_recursive(rw[b], b, caller)]
        IN  /\ ~misused
            /\ pre' = Before(rw)
            /\ rw' = [b \in Builds |-> r[b].self]
            /\ ret' = [b \in Builds |-> Called("lock_shared_recursive", Some(caller), r[b])]
            /\ held' = [b \in Builds |-> Gain(held[b], "shared", r[b])]
            /\ UNCHANGED <<mutex, misused>>

CallTryLockSharedRecursive ==
    \E caller \in Sites :
        LET r == [b \in Builds |-> try_lock_shared_recursive(rw[b], b, caller)]
        IN  /\ ~misused
            /\ pre' = Before(rw)
            /\ rw' = [b \in Builds |-> r[b].self]
            /\ ret' = [b \in Builds |-> Called("try_lock_shared_recursive", Some(caller), r[b])]
            /\ held' = [b \in Builds |-> Gain(held[b], "shared", r[b])]
            /\ UNCHANGED <<mutex, misused>>

CallMutexLock ==
    \E caller \in Sites :
        LET r == [b \in Builds |-> CellMutex_lock(mutex[b], b, caller)]
        IN  /\ ~misused
            /\ pre' = Before(Inner(mutex))
            /\ mutex' = [b \in Builds |-> r[b].self]
            /\ ret' = [b \in Builds |-> Called("CellMutex::lock", Some(caller), r[b])]
            /\ held' = [b \in Builds |-> Gain(held[b], "mutex", r[b])]
            /\ UNCHANGED <<rw, misused>>

CallMutexTryLock ==
    \E caller \in Sites :
        LET r == [b \in Builds |-> CellMutex_try_lock(mutex[b], b, caller)]
        IN  /\ ~misused
            /\ pre' = Before(Inner(mutex))
            /\ mutex' = [b \in Builds |-> r[b].self]
            /\ ret' = [b \in Builds |-> Called("CellMutex::try_lock", Some(caller), r[b])]
            /\ held' = [b \in Builds |-> Gain(held[b], "mutex", r[b])]
            /\ UNCHANGED <<rw, misused>>

\* unsafe fn: called only by the caller that holds the mutex
CallMutexUnlock ==
    \E oc \in BOOLEAN :
        LET r == [b \in Builds |-> CellMutex_unlock(mutex[b], Profile(b, oc))]
        IN  /\ ~misused
            /\ \A b \in Builds : held[b].mutex > 0
            /\ pre' = Before(Inner(mutex))
            /\ mutex' = [b \in Builds |-> r[b].self]
            /\ ret' = [b \in Builds |-> Called("CellMutex::unlock", None, r[b])]
            /\ held' = [b \in Builds |-> Drop(held[b], "mutex", r[b])]
            /\ UNCHANGED <<rw, misused>>

CallMutexIsLocked ==
    /\ ~misused
    /\ pre' = Before(Inner(mutex))
    /\ ret' = [b \in Builds |->
           Called("CellMutex::is_locked", None, Return(mutex[b], Bool(CellMutex_is_locked(mutex[b]))))]
    /\ UNCHANGED <<rw, mutex, held, misused>>

\* the same unsafe fn called although no caller holds the borrow: a breach
\* of its contract, after which the run is undefined and followed no further
MisuseUnlockShared ==
    \E oc \in BOOLEAN :
        LET r == [b \in Builds |-> unlock_shared(rw[b], Profile(b, oc))]
        IN  /\ ~misused
            /\ \A b \in Builds : held[b].shared = 0
            /\ misused' = TRUE
            /\ pre' = Before(rw)
            /\ rw' = [b \in Builds |-> r[b].self]
            /\ ret' = [b \in Builds |-> Called("unlock_shared", None, r[b])]
            /\ UNCHANGED <<mutex, held>>

\* the same unsafe fn called although no caller holds the borrow: a breach
\* of its contract, after which the run is undefined and followed no further
MisuseUnlockExclusive ==
    \E oc \in BOOLEAN :
        LET r == [b \in Builds |-> unlock_exclusive(rw[b], Profile(b, oc))]
        IN  /\ ~misused
            /\ \A b \in Builds : held[b].exclusive = 0
            /\ misused' = TRUE
            /\ pre' = Before(rw)
            /\ rw' = [b \in Builds |-> r[b].self]
            /\ ret' = [b \in Builds |-> Called("unlock_exclusive", None, r[b])]
            /\ UNCHANGED <<mutex, held>>

Next ==
    \/ CallLockShared
    \/ CallTryLockShared
    \/ CallUnlockShared
    \/ CallLockExclusive
    \/ CallTryLockExclusive
    \/ CallUnlockExclusive
    \/ CallIsLocked
    \/ CallIsLockedExclusive
    \/ CallLockSharedRecursive
    \/ CallTryLockSharedRecursive
    \/ CallMutexLock
    \/ CallMutexTryLock
    \/ CallMutexUnlock
    \/ CallMutexIsLocked

\* use that keeps the contract of the unsafe functions
Spec == Init /\ [][Next]_vars

NextMisuse ==
    \/ Next
    \/ MisuseUnlockShared
    \/ MisuseUnlockExclusive

\* use that may end in a breach of the contract of unlock_shared or
\* unlock_exclusive
SpecMisuse == Init /\ [][NextMisuse]_vars

TypeOK ==
    \A b \in Builds :
        /\ rw[b].borrow_count.count \in IsizeMin..IsizeMax
        /\ mutex[b][1].borrow_count.count \in IsizeMin..IsizeMax
        /\ ret[b].outcome \in {"unit", "true", "false", "panic"}

\* ----------------------------------------------------------------- claims
\* names of the entry points, as recorded in ret[b].op
SharedAcquires ==
    {"lock_shared", "try_lock_shared",
     "lock_shared_recursive", "try_lock_shared_recursive"}
ExclusiveAcquires == {"lock_exclusive", "try_lock_exclusive"}
Returned(r) == r.outcome \in {"unit", "true"}

\* C1: in every reachable state the counter matches the borrows the callers
\* hold: count > 0 is exactly count shared borrows and no exclusive one,
\* count = -1 is exactly one exclusive borrow and no shared one, count = 0 is
\* none; count is never below -1, so at most one exclusive borrow exists and
\* never together with a shared one.
C1_CountMatchesBorrows ==
    \A b \in Builds :
        LET c == rw[b].borrow_count.count
            h == held[b]
        IN  /\ c >= -1
            /\ (c > 0) => (h.shared = c /\ h.exclusive = 0)
            /\ (c = -1) => (h.exclusive = 1 /\ h.shared = 0)
            /\ (c = 0) => (h.shared = 0 /\ h.exclusive = 0)
            /\ h.exclusive <= 1
            /\ ~(h.exclusive > 0 /\ h.shared > 0)

\* C1 witness: an exclusive borrow taken after a streak of shared borrows
\* has been released
C1_Witness ==
    \A b \in Builds :
        /\ rw[b].borrow_count.count = -1
        /\ held[b].exclusive = 1
        /\ pre[b].ret.op = "unlock_shared"
        /\ ret[b].op = "lock_exclusive"

\* C2: try_lock_exclusive returns true exactly when the lock is Unused at the
\* call; it returns false whenever a shared or an exclusive borrow is
\* outstanding, and succeeds again once unlock_exclusive has run.
C2_TryLockExclusiveIffUnused ==
    \A b \in Builds :
        /\ (ret[b].op = "try_lock_exclusive") =>
              /\ (ret[b].outcome = "true")
                    <=> (state(pre[b].self.borrow_count) = "Unused")
              /\ (pre[b].held.shared > 0 \/ pre[b].held.exclusive > 0)
                    => (ret[b].outcome = "false")
              /\ (ret[b].outcome = "true") => (rw[b].borrow_count.count = -1)
        /\ (ret[b].op = "unlock_exclusive") =>
              \A caller \in Sites :
                  try_lock_exclusive(rw[b], b, caller).outcome = "true"

\* C2 witness: a second try_lock_exclusive refused while the first is held
C2_Witness ==
    \A b \in Builds :
        /\ ret[b].op = "try_lock_exclusive"
        /\ ret[b].outcome = "false"
        /\ pre[b].ret.op = "try_lock_exclusive"
        /\ pre[b].ret.outcome = "true"

\* C4: is_locked() is false exactly when the successful acquisitions minus
\* the releases are zero; while shared borrows are held try_lock_exclusive is
\* refused, and it is accepted as soon as the last one has been released.
C4_IsLockedIffNetNonzero ==
    \A b \in Builds :
        LET net == held[b].shared + held[b].exclusive
        IN  /\ (~is_locked(rw[b])) <=> (net = 0)
            /\ (ret[b].op = "is_locked") => (ret[b].outcome = Bool(net # 0))
            /\ \A caller \in Sites :
                  /\ (held[b].shared > 0) =>
                        try_lock_exclusive(rw[b], b, caller).outcome = "false"
                  /\ (net = 0) =>
                        try_lock_exclusive(rw[b], b, caller).outcome = "true"

\* C4 witness: two shared borrows taken, both released, and the exclusive
\* borrow then granted
C4_Witness ==
    \A b \in Builds :
        /\ ret[b].op = "try_lock_exclusive"
        /\ ret[b].outcome = "true"
        /\ pre[b].ret.op = "unlock_shared"
        /\ pre[b].earlier.borrow_count.count = 1

\* C5: a successful shared acquire immediately followed by unlock_shared, or
\* a successful exclusive acquire immediately followed by unlock_exclusive,
\* leaves the lock exactly as it was before the acquire (count and recorded
\* location), so it can be taken in either mode exactly as before.
C5_AcquireReleaseRoundTrip ==
    \A b \in Builds :
        /\ (/\ ret[b].op = "unlock_shared"
            /\ ret[b].outcome = "unit"
            /\ pre[b].ret.op \in SharedAcquires
            /\ Returned(pre[b].ret))
              => rw[b] = pre[b].earlier
        /\ (/\ ret[b].op = "unlock_exclusive"
            /\ ret[b].outcome = "unit"
            /\ pre[b].ret.op \in ExclusiveAcquires
            /\ Returned(pre[b].ret))
              => rw[b] = pre[b].earlier
        /\ (/\ ret[b].op = "CellMutex::unlock"
            /\ ret[b].outcome = "unit"
            /\ pre[b].ret.op \in {"CellMutex::lock", "CellMutex::try_lock"}
            /\ Returned(pre[b].ret))
              => mutex[b][1] = pre[b].earlier

\* C5 witness: an exclusive borrow taken and released at once in a build
\* that records the location
C5_Witness ==
    \E b \in Builds :
        /\ debug_location(b)
        /\ ret[b].op = "unlock_exclusive"
        /\ ret[b].outcome = "unit"
        /\ pre[b].ret.op = "lock_exclusive"
        /\ pre[b].self.earliest_borrow_location # None
        /\ rw[b] = INIT

\* names of the try entry points
TryOps ==
    {"try_lock_shared", "try_lock_exclusive", "try_lock_shared_recursive",
     "CellMutex::try_lock"}

\* C3 (as claimed): try_lock_shared succeeds exactly when the lock is Unused
\* or SharedBorrow, so that any number of nested shared acquisitions succeed.
C3_Original ==
    \A b \in Builds :
        (ret[b].op = "try_lock_shared") =>
            ((ret[b].outcome = "true")
                <=> (state(pre[b].self.borrow_count)
                        \in {"Unused", "SharedBorrow"}))

\* C3 (amended): try_lock_shared succeeds exactly when the lock is Unused or
\* SharedBorrow with its count below the largest representable value, each
\* success raising count by exactly 1; it returns false exactly when an
\* exclusive borrow is held; at the largest count it panics.
C3_TryLockSharedBelowMax ==
    \A b \in Builds :
        (ret[b].op = "try_lock_shared") =>
            LET c == pre[b].self.borrow_count.count
            IN  /\ (ret[b].outcome = "true")
                      <=> (/\ state(pre[b].self.borrow_count)
                                 \in {"Unused", "SharedBorrow"}
                           /\ c < IsizeMax)
                /\ (ret[b].outcome = "true")
                      => (rw[b].borrow_count.count = c + 1)
                /\ (ret[b].outcome = "false")
                      <=> (state(pre[b].self.borrow_count) = "MutableBorrow")
                /\ (ret[b].outcome = "false") => (pre[b].held.exclusive = 1)
                /\ (ret[b].outcome = "panic") <=> (c = IsizeMax)

\* C3 witness: a nested shared acquisition granted on top of two others
C3_Witness ==
    \A b \in Builds :
        /\ ret[b].op = "try_lock_shared"
        /\ ret[b].outcome = "true"
        /\ pre[b].self.borrow_count.count = 2
        /\ rw[b].borrow_count.count = 3

\* C6 (as claimed): no try entry point ever panics.
C6_Original ==
    \A b \in Builds :
        (ret[b].op \in TryOps) => (ret[b].outcome \in {"true", "false"})

\* C6 (amended): try_lock_exclusive and CellMutex::try_lock never panic and
\* report failure by returning false; try_lock_shared and
\* try_lock_shared_recursive panic in exactly one case, when the shared count
\* is at the largest representable value ("Overflow shared borrows"), and
\* otherwise return true or false.
C6_TryPanicsOnlyOnExhaustion ==
    \A b \in Builds :
        /\ (ret[b].op \in {"try_lock_exclusive", "CellMutex::try_lock"})
              => (ret[b].outcome \in {"true", "false"})
        /\ (ret[b].op \in {"try_lock_shared", "try_lock_shared_recursive"})
              => /\ ret[b].outcome \in {"true", "false", "panic"}
                 /\ (ret[b].outcome = "panic")
                       <=> (pre[b].self.borrow_count.count = IsizeMax)
                 /\ (ret[b].outcome = "panic")
                       => (ret[b].msg = <<"Overflow shared borrows">>)

\* C6 witness: try_lock_exclusive refused, by false, at the largest count
C6_Witness ==
    \A b \in Builds :
        /\ ret[b].op = "try_lock_exclusive"
        /\ ret[b].outcome = "false"
        /\ rw[b].borrow_count.count = IsizeMax
        /\ pre[b].ret.op = "try_lock_shared"
        /\ pre[b].ret.outcome = "panic"

\* C7 (as claimed): from any reachable state lock_shared (lock_exclusive)
\* panics exactly when try_lock_shared (try_lock_exclusive) would return
\* false.
C7_Original ==
    \A b \in Builds : \A caller \in Sites :
        /\ (lock_shared(rw[b], b, caller).outcome = "panic")
              <=> (try_lock_shared(rw[b], b, caller).outcome = "false")
        /\ (lock_exclusive(rw[b], b, caller).outcome = "panic")
              <=> (try_lock_exclusive(rw[b], b, caller).outcome = "false")

\* C7 (amended): from any reachable state lock_shared (lock_exclusive)
\* panics exactly when try_lock_shared (try_lock_exclusive) would not return
\* true, that is when it would return false or, at the largest shared count,
\* panic itself; otherwise it succeeds with the same resulting state. There
\* is no retry: lock_shared on an exclusively held lock raises a diagnostic.
C7_BlockingAgreesWithTry ==
    \A b \in Builds :
        /\ \A caller \in Sites :
              LET l == lock_shared(rw[b], b, caller)
                  t == try_lock_shared(rw[b], b, caller)
                  lx == lock_exclusive(rw[b], b, caller)
                  tx == try_lock_exclusive(rw[b], b, caller)
              IN  /\ (l.outcome = "panic") <=> (t.outcome # "true")
                  /\ (l.outcome = "unit") <=> (t.outcome = "true")
                  /\ l.self = t.self
                  /\ (lx.outcome = "panic") <=> (tx.outcome = "false")
                  /\ (lx.outcome = "unit") <=> (tx.outcome = "true")
                  /\ lx.self = tx.self
        /\ (ret[b].op = "lock_shared" /\ pre[b].held.exclusive = 1)
              => /\ ret[b].outcome = "panic"
                 /\ ret[b].msg # <<>>

\* C7 witness: lock_shared raised on a lock that lock_exclusive holds
C7_Witness ==
    \A b \in Builds :
        /\ ret[b].op = "lock_shared"
        /\ ret[b].outcome = "panic"
        /\ pre[b].ret.op = "lock_exclusive"
        /\ pre[b].ret.outcome = "unit"
        /\ pre[b].earlier = INIT

\* C8: a shared acquire attempted at the largest representable count panics
\* and leaves the counter at that value; the count never wraps, so the lock
\* is never seen as exclusively locked or unused because of overflow.
C8_ExhaustionPanicsWithoutWrap ==
    \A b \in Builds :
        /\ (ret[b].op \in SharedAcquires
              /\ pre[b].self.borrow_count.count = IsizeMax)
              => /\ ret[b].outcome = "panic"
                 /\ ret[b].msg = <<"Overflow shared borrows">>
                 /\ rw[b] = pre[b].self
                 /\ is_locked(rw[b])
                 /\ ~is_locked_exclusive(rw[b])
        /\ (ret[b].op \in SharedAcquires
              /\ pre[b].self.borrow_count.count > 0)
              => rw[b].borrow_count.count >= pre[b].self.borrow_count.count

\* C8 witness: lock_shared attempted with the counter at its largest value
C8_Witness ==
    \A b \in Builds :
        /\ ret[b].op = "lock_shared"
        /\ pre[b].self.borrow_count.count = IsizeMax
        /\ ret[b].outcome = "panic"
        /\ held[b].shared = IsizeMax

\* C9: a refused acquire changes nothing: when try_lock_exclusive or
\* try_lock_shared returns false, or lock_exclusive or lock_shared panics,
\* the count, the recorded location and the borrows held are what they were
\* before the call.
C9_RefusedAcquireKeepsState ==
    \A b \in Builds :
        (\/ (ret[b].op \in {"try_lock_exclusive", "try_lock_shared"}
               /\ ret[b].outcome = "false")
         \/ (ret[b].op \in {"lock_exclusive", "lock_shared"}
               /\ ret[b].outcome = "panic"))
            => /\ rw[b] = pre[b].self
               /\ held[b] = pre[b].held

\* C9 witness: lock_exclusive refused, from another call site, on a lock
\* whose exclusive holder's location is recorded
C9_Witness ==
    \E b \in Builds :
        /\ debug_location(b)
        /\ ret[b].op = "lock_exclusive"
        /\ ret[b].outcome = "panic"
        /\ pre[b].self.borrow_count.count = -1
        /\ pre[b].self.earliest_borrow_location # None
        /\ ret[b].site # pre[b].self.earliest_borrow_location

\* the fragments of a panic message that say what was attempted
ConflictKind(msg) == SubSeq(msg, 1, IF Len(msg) < 3 THEN Len(msg) ELSE
                                    IF msg[2] = "borrow" THEN 2 ELSE 3)

\* C10: the diagnostic-location switch never changes admission: the same
\* calls made on a lock built with location tracking and on one built
\* without it give the same count after every step and the same outcome of
\* every call; only the location carried in the failure message differs.
C10_LocationSwitchKeepsAdmission ==
    \A b1 \in Builds : \A b2 \in Builds :
        /\ rw[b1].borrow_count = rw[b2].borrow_count
        /\ mutex[b1][1].borrow_count = mutex[b2][1].borrow_count
        /\ ret[b1].op = ret[b2].op
        /\ ret[b1].outcome = ret[b2].outcome
        /\ held[b1] = held[b2]
        /\ ConflictKind(ret[b1].msg) = ConflictKind(ret[b2].msg)
        /\ (~debug_location(b1)) =>
              /\ rw[b1].earliest_borrow_location = None
              /\ ret[b1].msg = ConflictKind(ret[b1].msg)

\* C10 witness: a refused lock_shared whose message carries the location in
\* the build that tracks it and none in the build that does not
C10_Witness ==
    \E b1 \in Builds : \E b2 \in Builds :
        /\ debug_location(b1)
        /\ ~debug_location(b2)
        /\ ret[b1].op = "lock_shared"
        /\ ret[b1].outcome = "panic"
        /\ ret[b2].outcome = "panic"
        /\ Len(ret[b1].msg) > Len(ret[b2].msg)
        /\ rw[b1].borrow_count.count = -1
        /\ rw[b2].borrow_count.count = -1

\* ------------------------------------------------- claims C11 .. C20
MutexOps ==
    {"CellMutex::lock", "CellMutex::try_lock", "CellMutex::unlock",
     "CellMutex::is_locked"}

\* the lock the last call of build b was made on, as it is now
Target(b) == IF ret[b].op \in MutexOps THEN mutex[b][1] ELSE rw[b]

\* C11: with diagnostics enabled, in every reachable state the
\* earliest_borrow_location is present if and only if the lock is not
\* Unused, whether the streak began with a shared or an exclusive borrow.
C11_LocationPresentIffLocked ==
    \A b \in Builds :
        debug_location(b) =>
            ((rw[b].earliest_borrow_location # None) <=> is_locked(rw[b]))

\* C12: with diagnostics enabled the panic message of an exclusive attempt
\* refused because of a shared holder names the conflict kind and carries
\* the holder's location; with diagnostics disabled it names the kind only.
C12_MessageCarriesHolderLocation ==
    \A b \in Builds :
        (/\ ret[b].op = "lock_exclusive"
         /\ ret[b].outcome = "panic"
         /\ pre[b].held.shared > 0)
            => /\ ConflictKind(ret[b].msg)
                    = <<"Unable to ", "exclusively ", "borrow">>
               /\ IF debug_location(b)
                  THEN /\ Len(ret[b].msg) = 7
                       /\ ret[b].msg[5] = "Already"
                       /\ \E site \in Sites : ret[b].msg[7] = ToString(site)
                  ELSE ret[b].msg = <<"Unable to ", "exclusively ", "borrow">>

\* C13: CellMutex is the exclusive half of CellRwLock: try_lock returns true
\* exactly when the mutex is not locked, lock panics exactly when it is,
\* unlock by the holder returns it to unlocked, is_locked is true exactly
\* while a lock/try_lock is unmatched, and the counter is only ever 0 or -1.
C13_MutexIsExclusiveHalf ==
    \A b \in Builds :
        /\ mutex[b][1].borrow_count.count \in {0, -1}
        /\ held[b].mutex \in {0, 1}
        /\ CellMutex_is_locked(mutex[b]) <=> (held[b].mutex = 1)
        /\ (ret[b].op = "CellMutex::try_lock") =>
              /\ ret[b].outcome \in {"true", "false"}
              /\ (ret[b].outcome = "true") <=> (pre[b].held.mutex = 0)
        /\ (ret[b].op = "CellMutex::lock") =>
              /\ ret[b].outcome \in {"unit", "panic"}
              /\ (ret[b].outcome = "panic") <=> (pre[b].held.mutex = 1)
        /\ (ret[b].op = "CellMutex::unlock") =>
              /\ ret[b].outcome = "unit"
              /\ ~CellMutex_is_locked(mutex[b])
        /\ (ret[b].op = "CellMutex::is_locked") =>
              ret[b].outcome = Bool(held[b].mutex = 1)
        /\ \A caller \in Sites :
              LET t == CellMutex_try_lock(mutex[b], b, caller)
                  x == try_lock_exclusive(mutex[b][1], b, caller)
              IN  t.outcome = x.outcome /\ t.self[1] = x.self

\* C13 witness: lock refused on a mutex that try_lock has taken
C13_Witness ==
    \A b \in Builds :
        /\ ret[b].op = "CellMutex::lock"
        /\ ret[b].outcome = "panic"
        /\ pre[b].ret.op = "CellMutex::try_lock"
        /\ pre[b].ret.outcome = "true"
        /\ mutex[b][1].borrow_count.count = -1

\* C14 (as claimed): the recursive shared entry points behave as the plain
\* ones, so a holder of a shared borrow can always take shared access again
\* while no exclusive borrow is held.
C14_Original ==
    \A b \in Builds : \A caller \in Sites :
        /\ lock_shared_recursive(rw[b], b, caller)
              = lock_shared(rw[b], b, caller)
        /\ try_lock_shared_recursive(rw[b], b, caller)
              = try_lock_shared(rw[b], b, caller)
        /\ (held[b].shared > 0 /\ held[b].exclusive = 0) =>
              /\ lock_shared_recursive(rw[b], b, caller).outcome = "unit"
              /\ try_lock_shared_recursive(rw[b], b, caller).outcome = "true"

\* C14 (amended): from every reachable state lock_shared_recursive and
\* try_lock_shared_recursive have the outcome and the effect of lock_shared
\* and try_lock_shared, so a holder of a shared borrow can take shared access
\* again while no exclusive borrow is held and the count is below the largest
\* representable value; at that value both panic.
C14_RecursiveIsPlainShared ==
    \A b \in Builds :
        /\ \A caller \in Sites :
              /\ lock_shared_recursive(rw[b], b, caller)
                    = lock_shared(rw[b], b, caller)
              /\ try_lock_shared_recursive(rw[b], b, caller)
                    = try_lock_shared(rw[b], b, caller)
        /\ (ret[b].op \in {"lock_shared_recursive", "try_lock_shared_recursive"}
              /\ pre[b].held.shared > 0 /\ pre[b].held.exclusive = 0)
              => IF pre[b].self.borrow_count.count < IsizeMax
                 THEN /\ Returned(ret[b])
                      /\ rw[b].borrow_count.count
                            = pre[b].self.borrow_count.count + 1
                      /\ held[b].shared = pre[b].held.shared + 1
                 ELSE /\ ret[b].outcome = "panic"
                      /\ rw[b] = pre[b].self

\* C14 witness: a shared holder takes shared access again, recursively
C14_Witness ==
    \A b \in Builds :
        /\ ret[b].op = "lock_shared_recursive"
        /\ ret[b].outcome = "unit"
        /\ pre[b].held.shared = 1
        /\ held[b].shared = 2
        /\ pre[b].ret.op = "lock_shared"

\* the messages of the assert_eq!, debug_assert_eq! and debug_assert! calls
AssertionMsgs ==
    {<<"assertion left == right failed">>,
     <<"assertion failed: self.borrow_count.get().count > 0">>,
     <<"assertion failed: self.borrow_count.get().count < 0">>}

\* C15 (as claimed): unlock_shared or unlock_exclusive called without the
\* corresponding borrow held never panics, in any build.
C15_Original ==
    \A b \in Builds : misused => (ret[b].outcome # "panic")

\* C15 (amended): unlock_shared and unlock_exclusive return no error value,
\* but called without the corresponding borrow held they panic on their
\* debug assertions in every build with debug_assertions (the lock left
\* unchanged); in a build without debug_assertions they return normally with
\* the count moved by one (unlock_shared down, unlock_exclusive up), except
\* that unlock_exclusive at the largest count overflows: a panic with
\* overflow checks, a wrap to the smallest value without.
C15_MisusedUnlockPanicsOnlyInDebug ==
    \A b \in Builds :
        misused =>
            LET c == pre[b].self.borrow_count.count
            IN  /\ ret[b].op \in {"unlock_shared", "unlock_exclusive"}
                /\ IF b.debug_assertions
                   THEN /\ ret[b].outcome = "panic"
                        /\ ret[b].msg \in AssertionMsgs
                        /\ rw[b] = pre[b].self
                   ELSE IF ret[b].op = "unlock_exclusive" /\ c = IsizeMax
                   THEN \/ /\ ret[b].outcome = "panic"
                           /\ ret[b].msg = <<"attempt to add with overflow">>
                           /\ rw[b] = pre[b].self
                        \/ /\ ret[b].outcome = "unit"
                           /\ rw[b].borrow_count.count = IsizeMin
                   ELSE /\ ret[b].outcome = "unit"
                        /\ rw[b].borrow_count.count
                              = IF ret[b].op = "unlock_shared"
                                THEN c - 1 ELSE c + 1

\* C15 witness: unlock_shared called on an exclusively held lock: a panic in
\* the builds with debug assertions, a count of -2 in the others
C15_Witness ==
    /\ misused
    /\ \A b \in Builds :
          /\ ret[b].op = "unlock_shared"
          /\ pre[b].self.borrow_count.count = -1
          /\ b.debug_assertions => ret[b].outcome = "panic"
          /\ (~b.debug_assertions) =>
                (ret[b].outcome = "unit" /\ rw[b].borrow_count.count = -2)

\* C16: with diagnostics enabled a successful shared acquire that moves the
\* lock out of Unused records its call site as the earliest borrow location,
\* and every later successful shared acquire of the streak leaves the
\* recorded location unchanged.
C16_FirstSharedAcquireRecordsSite ==
    \A b \in Builds :
        (/\ debug_location(b)
         /\ ret[b].op \in SharedAcquires
         /\ Returned(ret[b]))
            => IF pre[b].self.borrow_count.count = 0
               THEN rw[b].earliest_borrow_location = ret[b].site
               ELSE rw[b].earliest_borrow_location
                        = pre[b].self.earliest_borrow_location

\* C17: the location is cleared exactly when the state returns to Unused: a
\* release that brings count to 0 leaves the location absent, a release that
\* leaves count > 0 leaves the location as it was, nothing else clears it,
\* and it is absent in every Unused state, the initial one included.
C17_LocationClearedOnUnused ==
    \A b \in Builds :
        /\ (rw[b].borrow_count.count = 0)
              => (rw[b].earliest_borrow_location = None)
        /\ (mutex[b][1].borrow_count.count = 0)
              => (mutex[b][1].earliest_borrow_location = None)
        /\ (ret[b].op \in {"unlock_shared", "unlock_exclusive",
                           "CellMutex::unlock"}
              /\ ret[b].outcome = "unit")
              => IF Target(b).borrow_count.count = 0
                 THEN Target(b).earliest_borrow_location = None
                 ELSE Target(b).earliest_borrow_location
                          = pre[b].self.earliest_borrow_location
        /\ (pre[b].self.earliest_borrow_location # None
              /\ Target(b).earliest_borrow_location = None)
              => /\ ret[b].op \in {"unlock_shared", "unlock_exclusive",
                                   "CellMutex::unlock"}
                 /\ Target(b).borrow_count.count = 0

\* C17 witness: the release of an exclusive borrow clears a recorded location
C17_Witness ==
    \E b \in Builds :
        /\ debug_location(b)
        /\ ret[b].op = "unlock_exclusive"
        /\ pre[b].self.earliest_borrow_location # None
        /\ rw[b].borrow_count.count = 0
        /\ rw[b].earliest_borrow_location = None
        /\ pre[b].ret.op = "try_lock_exclusive"

\* one release by a current holder: unlock_shared of a shared borrow,
\* unlock_exclusive of the exclusive one
ReleaseOne(self, p) ==
    IF state(self.borrow_count) = "SharedBorrow"
    THEN unlock_shared(self, p).self
    ELSE unlock_exclusive(self, p).self

\* the lock after k releases by its current holders and no new acquire
RECURSIVE ReleaseBy(_, _, _)
ReleaseBy(self, p, k) ==
    IF k = 0 THEN self ELSE ReleaseBy(ReleaseOne(self, p), p, k - 1)

Abs(n) == IF n < 0 THEN -n ELSE n

\* C18: there is no terminal state: in every reachable state some operation
\* is enabled, a held lock can be released, and when the current holders
\* release their borrows and nobody acquires, the lock is Unused after
\* exactly |count| releases and not before, after which a shared and an
\* exclusive acquire both succeed.
C18_NoTerminalState ==
    /\ ENABLED Next
    /\ (\A b \in Builds : rw[b].borrow_count.count > 0)
          => ENABLED CallUnlockShared
    /\ (\A b \in Builds : rw[b].borrow_count.count < 0)
          => ENABLED CallUnlockExclusive
    /\ \A b \in Builds : \A oc \in BOOLEAN :
          LET p == Profile(b, oc)
              n == Abs(rw[b].borrow_count.count)
              free == ReleaseBy(rw[b], p, n)
          IN  /\ \A k \in 0..(n - 1) : is_locked(ReleaseBy(rw[b], p, k))
              /\ ~is_locked(free)
              /\ free = INIT
              /\ \A caller \in Sites :
                    /\ try_lock_shared(free, b, caller).outcome = "true"
                    /\ try_lock_exclusive(free, b, caller).outcome = "true"
    /\ \A b \in Builds :
          (ret[b].op \in {"unlock_shared", "unlock_exclusive"})
              => Abs(rw[b].borrow_count.count)
                    = Abs(pre[b].self.borrow_count.count) - 1

\* C18 witness: two shared holders released one after the other, the lock
\* Unused after the second release
C18_Witness ==
    \A b \in Builds :
        /\ ret[b].op = "unlock_shared"
        /\ pre[b].ret.op = "unlock_shared"
        /\ pre[b].earlier.borrow_count.count = 2
        /\ rw[b] = INIT

\* C19: is_locked_exclusive() is true exactly when an exclusive borrow is
\* held (count < 0) and is_locked() exactly when count # 0, so
\* is_locked_exclusive() implies is_locked(); neither query changes the
\* count or the recorded location.
C19_QueriesReadTheCount ==
    \A b \in Builds :
        /\ is_locked_exclusive(rw[b]) <=> (rw[b].borrow_count.count < 0)
        /\ is_locked_exclusive(rw[b]) <=> (held[b].exclusive = 1)
        /\ is_locked(rw[b]) <=> (rw[b].borrow_count.count # 0)
        /\ is_locked_exclusive(rw[b]) => is_locked(rw[b])
        /\ (ret[b].op = "is_locked_exclusive") =>
              /\ ret[b].outcome = Bool(held[b].exclusive = 1)
              /\ rw[b] = pre[b].self
              /\ held[b] = pre[b].held
        /\ (ret[b].op = "is_locked") =>
              /\ ret[b].outcome = Bool(rw[b].borrow_count.count # 0)
              /\ rw[b] = pre[b].self
              /\ held[b] = pre[b].held

\* C19 witness: is_locked_exclusive answers true right after lock_exclusive
C19_Witness ==
    \A b \in Builds :
        /\ ret[b].op = "is_locked_exclusive"
        /\ ret[b].outcome = "true"
        /\ pre[b].ret.op = "lock_exclusive"
        /\ rw[b].borrow_count.count = -1

\* C20: no internal assertion fires under use that keeps the contract: where
\* try_borrow_exclusively succeeds count was exactly 0, where a shared
\* acquire is refused the state was MutableBorrow, and at every
\* unlock_shared (unlock_exclusive) by a holder the state was SharedBorrow
\* with count > 0 (MutableBorrow with count < 0).
C20_AssertionsNeverFire ==
    \A b \in Builds :
        /\ ret[b].msg \notin AssertionMsgs
        /\ (ret[b].op \in ExclusiveAcquires
                \union {"CellMutex::lock", "CellMutex::try_lock"}
              /\ Returned(ret[b]))
              => (pre[b].self.borrow_count.count = 0)
        /\ (ret[b].op \in SharedAcquires
              /\ (ret[b].outcome = "false"
                    \/ (ret[b].outcome = "panic"
                          /\ ret[b].msg # <<"Overflow shared borrows">>)))
              => (state(pre[b].self.borrow_count) = "MutableBorrow")
        /\ (ret[b].op = "unlock_shared")
              => /\ state(pre[b].self.borrow_count) = "SharedBorrow"
                 /\ pre[b].self.borrow_count.count > 0
                 /\ ret[b].outcome = "unit"
        /\ (ret[b].op \in {"unlock_exclusive", "CellMutex::unlock"})
              => /\ state(pre[b].self.borrow_count) = "MutableBorrow"
                 /\ pre[b].self.borrow_count.count < 0
                 /\ ret[b].outcome = "unit"

\* C20 witness: in a build with debug assertions, a shared acquire refused
\* by the exclusive holder, who then releases the lock
C20_Witness ==
    \E b \in Builds :
        /\ b.debug_assertions
        /\ ret[b].op = "unlock_exclusive"
        /\ ret[b].outcome = "unit"
        /\ pre[b].ret.op = "try_lock_shared"
        /\ pre[b].ret.outcome = "false"
        /\ pre[b].self.borrow_count.count = -1
====
